---- MODULE Spec2Model ----
(***************************************************************************)
(* CapabilitiesController (src/index.ts): the permission store, the        *)
(* delegation resolver, the request router, the executor, the approval     *)
(* coordinator and the grant/revoke meta methods.                          *)
(*                                                                         *)
(* A request is one atomic action (the controller is single-threaded and   *)
(* every handler but requestPermissions runs to completion); the only      *)
(* suspension point is the approver's promise, which is a separate action. *)
(* `last` records the request that was handled last and its response.      *)
(***************************************************************************)
EXTENDS Integers, Sequences, FiniteSets, TLC

VARIABLES
    env,                  \* the names requests are drawn from (never changes)
    domains,              \* state.domains: domain name -> list of permissions
    permissionsRequests,  \* state.permissionsRequests
    approvals,            \* approver promises that have not settled yet
    nextId,               \* number of values uuid() has handed out
    last                  \* the last request and what the engine did with it

vars == <<env, domains, permissionsRequests, approvals, nextId, last>>

----------------------------------------------------------------------------
(* Bounds of the model *)

MaxId == 2          \* uuid() values available in one behaviour
MaxRequests == 1    \* requestPermissions calls waiting or left in the list
MaxFlows == 2       \* the same, where two approval flows run side by side

----------------------------------------------------------------------------
(* Values *)

NoGranter == "undefined"     \* RpcCapPermission.granter is optional
NoId == 0                    \* RpcCapPermission.id is optional
NoCaveats == <<>>            \* caveats absent; an empty array takes the same branches

StaticCaveats ==
    << [type |-> "static", value |-> 1],
       [type |-> "static", value |-> 42],
       [type |-> "filter", value |-> 7] >>

CaveatChoices == {NoCaveats, StaticCaveats}

NoError == [code |-> 0, message |-> ""]

unauthorized == [code |-> 1, message |-> "Unauthorized to perform action"]

METHOD_NOT_FOUND == [code |-> 0 - 32601, message |-> "Method not found"]

USER_REJECTED_ERROR == [code |-> 5, message |-> "User rejected the request."]

ApproverReason == [code |-> 0, message |-> "approver rejected"]

NoResult == [kind |-> "undefined", perms |-> <<>>, value |-> 0]

PermsResult(ps) == [kind |-> "permissions", perms |-> ps, value |-> 0]

ValueResult(v) == [kind |-> "value", perms |-> <<>>, value |-> v]

\* config.restrictedMethods: the registry; "legacy" names a method that state
\* may mention although no handler is registered for it.
restrictedMethods == {"write"}

methodPrefix == ""

internalMethods ==
    { methodPrefix \o "getPermissions", methodPrefix \o "requestPermissions",
      methodPrefix \o "grantPermissions", methodPrefix \o "revokePermissions" }

\* The names a behaviour draws its requests from: the calling domains, the
\* method names requests and permissions carry, the caveats permissions are
\* given, whether grantPermissions and revokePermissions requests name one
\* method only, config.safeMethods, how many requestPermissions calls are
\* made, and the ids that callers put in the metadata of such a call.
\* Two domains that delegate to and revoke from each other:
EnvMain ==
    [ domains |-> {"siteA", "siteB"}, methods |-> {"write"},
      caveats |-> {NoCaveats}, short |-> TRUE, safeMethods |-> {"ping"},
      pending |-> MaxRequests, ticketIds |-> {"t1"} ]

\* One domain, a state that mentions a method the registry does not hold, and
\* a configuration whose safe methods include the name of a meta method:
EnvSolo ==
    [ domains |-> {"siteA"}, methods |-> {"write", "legacy"},
      caveats |-> CaveatChoices, short |-> FALSE,
      safeMethods |-> {"ping", "getPermissions"},
      pending |-> MaxRequests, ticketIds |-> {"t1"} ]

\* A caller whose domain argument is the string the engine writes as the
\* granter of user-approved permissions:
EnvUser ==
    [ domains |-> {"siteA", "user"}, methods |-> {"write"},
      caveats |-> {NoCaveats}, short |-> TRUE, safeMethods |-> {"ping"},
      pending |-> MaxRequests, ticketIds |-> {"t1"} ]

\* Three domains, for delegation along a chain:
EnvChain ==
    [ domains |-> {"siteA", "siteB", "siteC"}, methods |-> {"write"},
      caveats |-> {NoCaveats}, short |-> TRUE, safeMethods |-> {"ping"},
      pending |-> MaxRequests, ticketIds |-> {"t1"} ]

\* Two domains that ask for permissions at the same time, each with a
\* metadata id of its choice:
EnvFlows ==
    [ domains |-> {"siteA", "siteB"}, methods |-> {"write"},
      caveats |-> {NoCaveats}, short |-> TRUE, safeMethods |-> {"ping"},
      pending |-> MaxFlows, ticketIds |-> {"t1", "t2"} ]

----------------------------------------------------------------------------
(* Sequence helpers *)

RECURSIVE SelectSeqBy(_, _)
SelectSeqBy(s, keep) ==
    IF s = <<>> THEN <<>>
    ELSE IF Head(s) \in keep THEN <<Head(s)>> \o SelectSeqBy(Tail(s), keep)
         ELSE SelectSeqBy(Tail(s), keep)

Range(s) == { s[i] : i \in 1..Len(s) }

NatKey(p) == <<p.method, p.granter>>

----------------------------------------------------------------------------
(* The store and the resolver *)

getPermissionsForDomain(domain) ==
    IF domain \in DOMAIN domains THEN domains[domain] ELSE <<>>

methodFilter(perms, method) ==
    SelectSeqBy(perms, { p \in Range(perms) : p.method = method })

\* The outcome of getPermission: a record, none, or a walk that never ends.
WalkNone == [kind |-> "none"]
WalkLoops == [kind |-> "loops"]
WalkFound(p) == [kind |-> "found", perm |-> p]

\* A walk that tries the holder's records for the method one after the other
\* until one of them leads to a record without a granter.
RECURSIVE GranterWalk_Backtrack(_, _, _)
GranterWalk_Backtrack(holder, method, seen) ==
    LET permissions == methodFilter(getPermissionsForDomain(holder), method)
        outcomes ==
            [ k \in 1..Len(permissions) |->
                IF permissions[k].granter = NoGranter THEN WalkFound(permissions[k])
                ELSE IF permissions[k].granter \in seen THEN WalkLoops
                ELSE GranterWalk_Backtrack(permissions[k].granter, method,
                                           seen \cup {permissions[k].granter}) ]
        found == { k \in 1..Len(permissions) : outcomes[k].kind = "found" }
    IN  IF permissions = <<>> THEN WalkNone
        ELSE IF found = {} THEN outcomes[1]
        ELSE outcomes[CHOOSE k \in found : \A j \in found : k <= j]

\* A walk that follows one granter and gives up at the second.
RECURSIVE GranterWalk_OneHop(_, _, _)
GranterWalk_OneHop(holder, method, seen) ==
    LET permissions == methodFilter(getPermissionsForDomain(holder), method)
    IN  IF permissions = <<>> THEN WalkNone
        ELSE LET perm == Head(permissions)
             IN  IF perm.granter # NoGranter
                 THEN IF Cardinality(seen) > 1 THEN WalkNone
                      ELSE IF perm.granter \in seen THEN WalkLoops
                      ELSE GranterWalk_OneHop(perm.granter, method,
                                              seen \cup {perm.granter})
                 ELSE WalkFound(perm)

\* The while loop of getPermission. Only the first element of the list is
\* ever looked at: a truthy granter replaces the list, a falsy one returns.
\* The store does not change during the walk, so coming back to a holder
\* already passed through repeats the same steps for ever.
RECURSIVE GranterWalk(_, _, _)
GranterWalk(holder, method, seen) ==
    LET permissions == methodFilter(getPermissionsForDomain(holder), method)
    IN  IF permissions = <<>> THEN WalkNone
        ELSE LET perm == Head(permissions)
             IN  IF perm.granter # NoGranter
                 THEN IF perm.granter \in seen THEN WalkLoops
                      ELSE GranterWalk(perm.granter, method, seen \cup {perm.granter})
                 ELSE WalkFound(perm)

\* getPermission returning the holder's own first record for the method,
\* without following its granter.
getPermission_NoWalk(domain, method) ==
    LET permissions == methodFilter(getPermissionsForDomain(domain), method)
    IN  IF permissions = <<>> THEN WalkNone ELSE WalkFound(Head(permissions))

getPermission(domain, method) == GranterWalk(domain, method, {domain})

UnTraversedMatch(p, domain, method, granter) ==
    /\ p.method = method
    /\ \/ (p.granter = NoGranter /\ granter = domain)
       \/ (p.granter # NoGranter /\ p.granter = granter)

getPermissionUnTraversed(domain, method, granter) ==
    LET perms == getPermissionsForDomain(domain)
        permissions ==
            SelectSeqBy(perms, { p \in Range(perms) :
                                   UnTraversedMatch(p, domain, method, granter) })
    IN  IF permissions # <<>> THEN WalkFound(Head(permissions)) ELSE WalkNone

\* getDomainSettings followed by setDomain: the entry exists afterwards.
setDomain(domain, permissions) ==
    [ d \in (DOMAIN domains) \cup {domain} |->
        IF d = domain THEN permissions ELSE domains[d] ]

RECURSIVE AssignIds(_, _)
\* The loop of addPermissionsFor that gives every permission without an id a
\* fresh one; `n` is the number of ids handed out so far.
AssignIds(perms, n) ==
    IF perms = <<>> THEN <<>>
    ELSE IF Head(perms).id = NoId
         THEN <<[Head(perms) EXCEPT !.id = n + 1]>> \o AssignIds(Tail(perms), n + 1)
         ELSE <<Head(perms)>> \o AssignIds(Tail(perms), n)

IdsNeeded(perms) == Cardinality({ i \in 1..Len(perms) : perms[i].id = NoId })

isReplaced(oldPerm, newPermissions) ==
    \E i \in 1..Len(newPermissions) :
        /\ oldPerm.method = newPermissions[i].method
        /\ oldPerm.granter = newPermissions[i].granter

\* addPermissionsFor with the filter comparing the method alone.
addPermissionsFor_MethodOnly(domainName, newPermissions, n) ==
    LET old == getPermissionsForDomain(domainName)
        kept == SelectSeqBy(old, { p \in Range(old) :
                    \A i \in 1..Len(newPermissions) :
                        p.method # newPermissions[i].method })
    IN  kept \o AssignIds(newPermissions, n)

\* The permissions list of the domain after addPermissionsFor.
addPermissionsFor(domainName, newPermissions, n) ==
    LET old == getPermissionsForDomain(domainName)
        kept == SelectSeqBy(old, { p \in Range(old) : ~isReplaced(p, newPermissions) })
    IN  kept \o AssignIds(newPermissions, n)

\* removePermissionsFor with the granter comparison inverted.
removePermissionsFor_OtherGranter(domainName, permissionsToRemove) ==
    LET old == getPermissionsForDomain(domainName)
    IN  SelectSeqBy(old, { p \in Range(old) :
            ~\E i \in 1..Len(permissionsToRemove) :
                /\ p.method = permissionsToRemove[i].method
                /\ p.granter # permissionsToRemove[i].granter })

\* removePermissionsFor with the filter comparing the method alone.
removePermissionsFor_MethodOnly(domainName, permissionsToRemove) ==
    LET old == getPermissionsForDomain(domainName)
    IN  SelectSeqBy(old, { p \in Range(old) :
            \A i \in 1..Len(permissionsToRemove) :
                p.method # permissionsToRemove[i].method })

\* The permissions list of the domain after removePermissionsFor.
removePermissionsFor(domainName, permissionsToRemove) ==
    LET old == getPermissionsForDomain(domainName)
    IN  SelectSeqBy(old, { p \in Range(old) : ~isReplaced(p, permissionsToRemove) })

----------------------------------------------------------------------------
(* Requests and responses *)

NoUndo == [applies |-> FALSE, before |-> <<>>]

\* The engine's view of one request: what was asked and what was done to
\* res, next and end. `before` is the permissions list of the domain the
\* request changes, as it was when the request came in; `undo` is set by a
\* removePermissionsFor that takes back the addPermissionsFor just before it.
Request(op, domain, method) ==
    [ op |-> op, domain |-> domain, method |-> method,
      target |-> "", methods |-> <<>>, perms |-> <<>>, before |-> <<>>,
      undo |-> NoUndo,
      error |-> NoError, result |-> NoResult,
      nextCalls |-> 0, endCalls |-> 0, handlerCalls |-> 0, resWrites |-> 0,
      hangs |-> FALSE ]

EndWithError(r, err) ==
    [r EXCEPT !.error = err, !.endCalls = @ + 1, !.resWrites = @ + 1]

EndWithResult(r, res) ==
    [r EXCEPT !.result = res, !.endCalls = @ + 1, !.resWrites = @ + 1]

NeverReturns(r) == [r EXCEPT !.hangs = TRUE]

\* The classification with the internal methods looked up first.
Route_InternalFirst(methodName) ==
    IF methodName \in internalMethods THEN "internal"
    ELSE IF methodName \in env.safeMethods THEN "safe"
    ELSE "restricted"

\* The classification of providerMiddlewareFunction.
Route(methodName) ==
    IF methodName \in env.safeMethods THEN "safe"
    ELSE IF methodName \in internalMethods THEN "internal"
    ELSE "restricted"

statics(caveats) ==
    SelectSeqBy(caveats, { c \in Range(caveats) : c.type = "static" })

\* The first static caveat instead of the last.
StaticValue_First(st) == st[1].value

StaticValue(st) == st[Len(st)].value

executeMethod(r, permission) ==
    IF r.method \in restrictedMethods
    THEN IF statics(permission.caveats) # <<>>
         THEN EndWithResult(r, ValueResult(StaticValue(statics(permission.caveats))))
         ELSE [r EXCEPT !.handlerCalls = @ + 1]
    ELSE EndWithError(r, METHOD_NOT_FOUND)

\* The restricted branch without the check that a permission was resolved.
RestrictedOutcome_Unchecked(domain, methodName) ==
    LET r == Request("call", domain, methodName)
        permission == getPermission(domain, methodName)
    IN  CASE permission.kind = "loops" -> NeverReturns(r)
          [] permission.kind = "none" ->
               executeMethod(r, [method |-> methodName, granter |-> NoGranter,
                                 id |-> NoId, caveats |-> NoCaveats])
          [] OTHER -> executeMethod(r, permission.perm)

\* The restricted branch of providerMiddlewareFunction.
RestrictedOutcome(domain, methodName) ==
    LET r == Request("call", domain, methodName)
        permission == getPermission(domain, methodName)
    IN  CASE permission.kind = "loops" -> NeverReturns(r)
          [] permission.kind = "none" -> EndWithError(r, unauthorized)
          [] OTHER -> executeMethod(r, permission.perm)

uuid(n) == n + 1

TicketId(n) == "uuid-" \o ToString(uuid(n))

----------------------------------------------------------------------------
(* Inputs *)

MethodLists ==
    IF env.short THEN { <<m>> : m \in env.methods }
    ELSE {<<>>} \cup { <<m>> : m \in env.methods }
                \cup { <<m1, m2>> : m1 \in env.methods, m2 \in env.methods }

\* IRequestedPermissions maps, as the list of their entries in key order.
RequestedChoices ==
    { << [method |-> "write", caveats |-> NoCaveats] >> }

ApprovedChoices ==
    { <<>> } \cup { << [method |-> "write", caveats |-> c] >> : c \in env.caveats }

NoMetadata == [id |-> "", origin |-> ""]

MetadataChoices(domain) ==
    {NoMetadata} \cup { [id |-> t, origin |-> domain] : t \in env.ticketIds }

Granters == {NoGranter, "user"}

ApiPerms ==
    { [method |-> m, granter |-> g, id |-> NoId, caveats |-> c] :
        m \in env.methods, g \in Granters, c \in env.caveats }

\* Lists handed to addPermissionsFor: one permission, or two with the same
\* natural key and different caveats.
ApiPermLists ==
    { <<p>> : p \in ApiPerms }
      \cup { pq \in { <<p, q>> : p \in ApiPerms, q \in ApiPerms } :
                  /\ NatKey(pq[1]) = NatKey(pq[2])
                  /\ pq[1].caveats = NoCaveats
                  /\ pq[2].caveats = StaticCaveats }

ApiRemoveLists == { <<p>> : p \in { x \in ApiPerms : x.caveats = NoCaveats } }

----------------------------------------------------------------------------
(* Actions *)

Running == ~last.hangs

Init ==
    /\ env \in {EnvMain, EnvSolo}
    /\ domains = << >>
    /\ permissionsRequests = <<>>
    /\ approvals = <<>>
    /\ nextId = 0
    /\ last = Request("init", "", "")

\* providerMiddlewareFunction, lines 216-218
SafePassthrough(domain, methodName) ==
    /\ Running
    /\ Route(methodName) = "safe"
    /\ last' = [Request("call", domain, methodName) EXCEPT !.nextCalls = @ + 1]
    /\ UNCHANGED <<env, domains, permissionsRequests, approvals, nextId>>

\* providerMiddlewareFunction, lines 225-243, and executeMethod
RestrictedCall(domain, methodName) ==
    /\ Running
    /\ Route(methodName) = "restricted"
    /\ last' = RestrictedOutcome(domain, methodName)
    /\ UNCHANGED <<env, domains, permissionsRequests, approvals, nextId>>

getPermissionsMiddleware(domain) ==
    /\ Running
    /\ Route(methodPrefix \o "getPermissions") = "internal"
    /\ last' = EndWithResult(Request("getPermissions", domain, "getPermissions"),
                             PermsResult(getPermissionsForDomain(domain)))
    /\ UNCHANGED <<env, domains, permissionsRequests, approvals, nextId>>

\* requestPermissionsMiddleware, lines 517-539: the ticket is appended and the
\* approver is asked; the response waits for the approver.
requestPermissionsMiddleware(domain, requested, reqMetadata) ==
    /\ Running
    /\ Route(methodPrefix \o "requestPermissions") = "internal"
    /\ Len(permissionsRequests) < env.pending
    /\ Len(approvals) < env.pending
    /\ LET base == IF reqMetadata = NoMetadata
                   THEN [id |-> "", origin |-> domain]
                   ELSE reqMetadata
           fresh == base.id = ""
           metadata == IF fresh THEN [base EXCEPT !.id = TicketId(nextId)] ELSE base
           permissionsRequest ==
               [origin |-> domain, metadata |-> metadata, options |-> requested]
       IN  /\ fresh => nextId < MaxId
           /\ nextId' = IF fresh THEN uuid(nextId) ELSE nextId
           /\ permissionsRequests' = Append(permissionsRequests, permissionsRequest)
           /\ approvals' = Append(approvals, permissionsRequest)
           /\ last' = [Request("requestPermissions", domain, "requestPermissions")
                         EXCEPT !.target = metadata.id]
    /\ UNCHANGED <<env, domains>>

RemoveAt(s, i) == SubSeq(s, 1, i - 1) \o SubSeq(s, i + 1, Len(s))

\* removePermissionsRequest with the comparison of the filter inverted.
removePermissionsRequest_KeepsMatch(requestId) ==
    SelectSeqBy(permissionsRequests,
                { oldReq \in Range(permissionsRequests) : oldReq.metadata.id = requestId })

removePermissionsRequest(requestId) ==
    SelectSeqBy(permissionsRequests,
                { oldReq \in Range(permissionsRequests) : oldReq.metadata.id # requestId })

\* The permissions grantNewPermissions builds from the approved map.
RECURSIVE NewRootPermissions(_, _)
NewRootPermissions(approved, n) ==
    IF approved = <<>> THEN <<>>
    ELSE << [method |-> Head(approved).method, granter |-> "user",
             id |-> uuid(n), caveats |-> Head(approved).caveats] >>
         \o NewRootPermissions(Tail(approved), n + 1)

\* The .then callback without the test for an empty approved map.
ApproverResolves_NoEmptyCheck(i, approved) ==
    /\ Running
    /\ i \in 1..Len(approvals)
    /\ approvals' = RemoveAt(approvals, i)
    /\ LET permissionsRequest == approvals[i]
           domain == permissionsRequest.origin
           r == [Request("approval", domain, "requestPermissions")
                   EXCEPT !.target = permissionsRequest.metadata.id,
                          !.before = getPermissionsForDomain(domain),
                          !.methods = [k \in 1..Len(approved) |-> approved[k].method]]
           permissions == NewRootPermissions(approved, nextId)
           after == addPermissionsFor(domain, permissions, nextId + Len(approved))
       IN  /\ nextId + Len(approved) <= MaxId
           /\ permissionsRequests' =
                  removePermissionsRequest(permissionsRequest.metadata.id)
           /\ nextId' = nextId + Len(approved)
           /\ domains' = setDomain(domain, after)
           /\ last' = EndWithResult([r EXCEPT !.perms = permissions],
                                    PermsResult(after))
    /\ UNCHANGED env

\* The .then callback of requestPermissionsMiddleware, lines 542-554, with
\* grantNewPermissions.
ApproverResolves(i, approved) ==
    /\ Running
    /\ i \in 1..Len(approvals)
    /\ approvals' = RemoveAt(approvals, i)
    /\ LET permissionsRequest == approvals[i]
           domain == permissionsRequest.origin
           r == [Request("approval", domain, "requestPermissions")
                   EXCEPT !.target = permissionsRequest.metadata.id,
                          !.before = getPermissionsForDomain(domain),
                          !.methods = [k \in 1..Len(approved) |-> approved[k].method]]
       IN  IF Len(approved) = 0
           THEN /\ last' = EndWithError(r, USER_REJECTED_ERROR)
                /\ UNCHANGED <<domains, permissionsRequests, nextId>>
           ELSE LET permissions == NewRootPermissions(approved, nextId)
                    after == addPermissionsFor(domain, permissions, nextId + Len(approved))
                IN  /\ nextId + Len(approved) <= MaxId
                    /\ permissionsRequests' =
                           removePermissionsRequest(permissionsRequest.metadata.id)
                    /\ nextId' = nextId + Len(approved)
                    /\ domains' = setDomain(domain, after)
                    /\ last' = EndWithResult([r EXCEPT !.perms = permissions],
                                             PermsResult(after))
    /\ UNCHANGED env

\* The .catch callback of requestPermissionsMiddleware, lines 555-558.
ApproverRejects(i) ==
    /\ Running
    /\ i \in 1..Len(approvals)
    /\ approvals' = RemoveAt(approvals, i)
    /\ last' = EndWithError(
                 [Request("rejection", approvals[i].origin, "requestPermissions")
                    EXCEPT !.target = approvals[i].metadata.id],
                 ApproverReason)
    /\ UNCHANGED <<env, domains, permissionsRequests, nextId>>

\* grantPermissionsMiddleware, lines 575-583: duplicates removed, first kept.
RECURSIVE Dedupe(_, _)
Dedupe(requestedPerms, methodNames) ==
    IF requestedPerms = <<>> THEN <<>>
    ELSE IF Head(requestedPerms) \in methodNames
         THEN Dedupe(Tail(requestedPerms), methodNames)
         ELSE <<Head(requestedPerms)>>
              \o Dedupe(Tail(requestedPerms), methodNames \cup {Head(requestedPerms)})

\* grantPermissionsMiddleware, lines 585-603: the forEach goes on after a
\* failed element; st = [r, newly, n].
RECURSIVE GrantLoop(_, _, _)
GrantLoop(granter, requestedPerms, st) ==
    IF requestedPerms = <<>> \/ st.r.hangs THEN st
    ELSE LET methodName == Head(requestedPerms)
             perm == getPermission(granter, methodName)
         IN  CASE perm.kind = "loops" -> [st EXCEPT !.r = NeverReturns(@)]
               [] perm.kind = "found" ->
                    GrantLoop(granter, Tail(requestedPerms),
                      [st EXCEPT !.n = @ + 1,
                                 !.newly = Append(@,
                                     [method |-> methodName, granter |-> granter,
                                      id |-> uuid(st.n),
                                      caveats |-> perm.perm.caveats])])
               [] OTHER ->
                    GrantLoop(granter, Tail(requestedPerms),
                      [st EXCEPT !.r = EndWithError(@, unauthorized)])

\* grantPermissionsMiddleware without `if (ended) return` before the store
\* is written.
grantPermissionsMiddleware_NoEndedCheck(granter, grantee, requestedPerms) ==
    /\ Running
    /\ Route(methodPrefix \o "grantPermissions") = "internal"
    /\ LET r == [Request("grantPermissions", granter, "grantPermissions")
                   EXCEPT !.target = grantee, !.methods = requestedPerms,
                          !.before = getPermissionsForDomain(grantee)]
           st == GrantLoop(granter, Dedupe(requestedPerms, {}),
                           [r |-> r, newly |-> <<>>, n |-> nextId])
           ended == st.r.endCalls > 0
       IN  /\ st.n <= MaxId
           /\ nextId' = st.n
           /\ IF st.r.hangs
              THEN /\ last' = st.r
                   /\ UNCHANGED domains
              ELSE /\ domains' = setDomain(grantee,
                                    addPermissionsFor(grantee, st.newly, st.n))
                   /\ last' = IF ended THEN st.r
                              ELSE EndWithResult([st.r EXCEPT !.perms = st.newly],
                                                 PermsResult(st.newly))
    /\ UNCHANGED <<env, permissionsRequests, approvals>>

grantPermissionsMiddleware(granter, grantee, requestedPerms) ==
    /\ Running
    /\ Route(methodPrefix \o "grantPermissions") = "internal"
    /\ LET r == [Request("grantPermissions", granter, "grantPermissions")
                   EXCEPT !.target = grantee, !.methods = requestedPerms,
                          !.before = getPermissionsForDomain(grantee)]
           st == GrantLoop(granter, Dedupe(requestedPerms, {}),
                           [r |-> r, newly |-> <<>>, n |-> nextId])
           ended == st.r.endCalls > 0
       IN  /\ st.n <= MaxId
           /\ nextId' = st.n
           /\ IF st.r.hangs \/ ended
              THEN /\ last' = st.r
                   /\ UNCHANGED domains
              ELSE /\ domains' = setDomain(grantee,
                                    addPermissionsFor(grantee, st.newly, st.n))
                   /\ last' = EndWithResult([st.r EXCEPT !.perms = st.newly],
                                            PermsResult(st.newly))
    /\ UNCHANGED <<env, permissionsRequests, approvals>>

\* revokePermissionsMiddleware, lines 625-645; an element is a method name
\* or an object with a method, and only the name is used.
RECURSIVE RevokeLoop(_, _, _, _)
RevokeLoop(domain, assignedDomain, requestedPerms, st) ==
    IF requestedPerms = <<>> THEN st
    ELSE LET methodName == Head(requestedPerms)
             perm == getPermissionUnTraversed(assignedDomain, methodName, domain)
             allowed ==
                 /\ perm.kind = "found"
                 /\ \/ (perm.perm.granter # NoGranter /\ perm.perm.granter = domain)
                    \/ assignedDomain = domain
         IN  IF allowed
             THEN RevokeLoop(domain, assignedDomain, Tail(requestedPerms),
                    [st EXCEPT !.newly = Append(@, perm.perm)])
             ELSE RevokeLoop(domain, assignedDomain, Tail(requestedPerms),
                    [st EXCEPT !.r = EndWithError(@, unauthorized)])

revokePermissionsMiddleware(domain, assignedDomain, requestedPerms) ==
    /\ Running
    /\ Route(methodPrefix \o "revokePermissions") = "internal"
    /\ LET r == [Request("revokePermissions", domain, "revokePermissions")
                   EXCEPT !.target = assignedDomain, !.methods = requestedPerms,
                          !.before = getPermissionsForDomain(assignedDomain)]
           st == RevokeLoop(domain, assignedDomain, requestedPerms,
                            [r |-> r, newly |-> <<>>])
           ended == st.r.endCalls > 0
       IN  IF ended
           THEN /\ last' = st.r
                /\ UNCHANGED domains
           ELSE /\ domains' = setDomain(assignedDomain,
                                 removePermissionsFor(assignedDomain, st.newly))
                /\ last' = EndWithResult([st.r EXCEPT !.perms = st.newly],
                                         PermsResult(st.newly))
    /\ UNCHANGED <<env, permissionsRequests, approvals, nextId>>

\* addPermissionsFor called by the host, lines 433-468.
AddPermissionsFor(domainName, newPermissions) ==
    /\ Running
    /\ nextId + IdsNeeded(newPermissions) <= MaxId
    /\ nextId' = nextId + IdsNeeded(newPermissions)
    /\ domains' = setDomain(domainName,
                            addPermissionsFor(domainName, newPermissions, nextId))
    /\ last' = [Request("addPermissionsFor", domainName, "")
                  EXCEPT !.perms = AssignIds(newPermissions, nextId),
                         !.before = getPermissionsForDomain(domainName)]
    /\ UNCHANGED <<env, permissionsRequests, approvals>>

\* removePermissionsFor called by the host, lines 476-495.
RemovePermissionsFor(domainName, permissionsToRemove) ==
    /\ Running
    /\ domains' = setDomain(domainName,
                            removePermissionsFor(domainName, permissionsToRemove))
    /\ last' = [Request("removePermissionsFor", domainName, "")
                  EXCEPT !.perms = permissionsToRemove,
                         !.before = getPermissionsForDomain(domainName),
                         !.undo = IF /\ last.op = "addPermissionsFor"
                                     /\ last.domain = domainName
                                     /\ Len(last.perms) = 1
                                     /\ Len(permissionsToRemove) = 1
                                     /\ NatKey(last.perms[1]) = NatKey(permissionsToRemove[1])
                                  THEN [applies |-> TRUE, before |-> last.before]
                                  ELSE NoUndo]
    /\ UNCHANGED <<env, permissionsRequests, approvals, nextId>>

Next ==
    \/ \E d \in env.domains, m \in env.safeMethods : SafePassthrough(d, m)
    \/ \E d \in env.domains, m \in env.methods : RestrictedCall(d, m)
    \/ \E d \in env.domains : getPermissionsMiddleware(d)
    \/ \E d \in env.domains, o \in RequestedChoices :
          \E md \in MetadataChoices(d) : requestPermissionsMiddleware(d, o, md)
    \/ \E i \in 1..env.pending, a \in ApprovedChoices : ApproverResolves(i, a)
    \/ \E i \in 1..env.pending : ApproverRejects(i)
    \/ \E d \in env.domains, g \in env.domains, ms \in MethodLists :
          grantPermissionsMiddleware(d, g, ms)
    \/ \E d \in env.domains, a \in env.domains, ms \in MethodLists :
          revokePermissionsMiddleware(d, a, ms)
    \/ \E d \in env.domains, ps \in ApiPermLists : AddPermissionsFor(d, ps)
    \/ \E d \in env.domains, ps \in ApiRemoveLists : RemovePermissionsFor(d, ps)

Spec == Init /\ [][Next]_vars

InitUser ==
    /\ env = EnvUser
    /\ domains = << >>
    /\ permissionsRequests = <<>>
    /\ approvals = <<>>
    /\ nextId = 0
    /\ last = Request("init", "", "")

SpecUser == InitUser /\ [][Next]_vars

\* The requests of the JSON-RPC surface alone: the host adds and removes
\* nothing, so every record comes from an approval or from grantPermissions.
NextRpc ==
    \/ \E d \in env.domains, m \in env.safeMethods : SafePassthrough(d, m)
    \/ \E d \in env.domains, m \in env.methods : RestrictedCall(d, m)
    \/ \E d \in env.domains : getPermissionsMiddleware(d)
    \/ \E d \in env.domains, o \in RequestedChoices :
          \E md \in MetadataChoices(d) : requestPermissionsMiddleware(d, o, md)
    \/ \E i \in 1..env.pending, a \in ApprovedChoices : ApproverResolves(i, a)
    \/ \E i \in 1..env.pending : ApproverRejects(i)
    \/ \E d \in env.domains, g \in env.domains, ms \in MethodLists :
          grantPermissionsMiddleware(d, g, ms)
    \/ \E d \in env.domains, a \in env.domains, ms \in MethodLists :
          revokePermissionsMiddleware(d, a, ms)

SpecRpc == InitUser /\ [][NextRpc]_vars

\* The ids of permissions that were given their ids in an earlier run.
RestoredId(k) == 0 - k

\* The state argument of the constructor, as an earlier run left it: siteA
\* holds a permission for write without a granter, added by the host, and
\* has delegated it to siteB.
RestoredDomains ==
    [ d \in {"siteA", "siteB"} |->
        IF d = "siteA"
        THEN << [method |-> "write", granter |-> NoGranter,
                 id |-> RestoredId(1), caveats |-> NoCaveats] >>
        ELSE << [method |-> "write", granter |-> "siteA",
                 id |-> RestoredId(2), caveats |-> NoCaveats] >> ]

InitChain ==
    /\ env = EnvChain
    /\ domains = RestoredDomains
    /\ permissionsRequests = <<>>
    /\ approvals = <<>>
    /\ nextId = 0
    /\ last = Request("init", "", "")

\* Delegation and revocation among the domains, with the host adding and
\* removing permissions; no requestPermissions call is made, so the approver
\* is never asked.
NextChain ==
    \/ \E d \in env.domains, m \in env.safeMethods : SafePassthrough(d, m)
    \/ \E d \in env.domains, m \in env.methods : RestrictedCall(d, m)
    \/ \E d \in env.domains : getPermissionsMiddleware(d)
    \/ \E d \in env.domains, g \in env.domains, ms \in MethodLists :
          grantPermissionsMiddleware(d, g, ms)
    \/ \E d \in env.domains, a \in env.domains, ms \in MethodLists :
          revokePermissionsMiddleware(d, a, ms)
    \/ \E d \in env.domains, ps \in ApiPermLists : AddPermissionsFor(d, ps)
    \/ \E d \in env.domains, ps \in ApiRemoveLists : RemovePermissionsFor(d, ps)

SpecChain == InitChain /\ [][NextChain]_vars

\* The state an earlier run left after siteB, too, had delegated write: to
\* siteC.
RestoredChain ==
    [ d \in {"siteA", "siteB", "siteC"} |->
        IF d = "siteC"
        THEN << [method |-> "write", granter |-> "siteB",
                 id |-> RestoredId(3), caveats |-> NoCaveats] >>
        ELSE RestoredDomains[d] ]

InitRedelegation ==
    /\ env = EnvChain
    /\ domains = RestoredChain
    /\ permissionsRequests = <<>>
    /\ approvals = <<>>
    /\ nextId = 0
    /\ last = Request("init", "", "")

\* Restricted calls, delegation and revocation among the domains, with the
\* host adding permissions.
NextRedelegation ==
    \/ \E d \in env.domains, m \in env.methods : RestrictedCall(d, m)
    \/ \E d \in env.domains, g \in env.domains, ms \in MethodLists :
          grantPermissionsMiddleware(d, g, ms)
    \/ \E d \in env.domains, a \in env.domains, ms \in MethodLists :
          revokePermissionsMiddleware(d, a, ms)
    \/ \E d \in env.domains, ps \in ApiPermLists : AddPermissionsFor(d, ps)

SpecRedelegation == InitRedelegation /\ [][NextRedelegation]_vars

InitFlows ==
    /\ env = EnvFlows
    /\ domains = << >>
    /\ permissionsRequests = <<>>
    /\ approvals = <<>>
    /\ nextId = 0
    /\ last = Request("init", "", "")

\* Permission requests and the approver's decisions on them, with the calls
\* that show what a domain may do and holds.
NextFlows ==
    \/ \E d \in env.domains, m \in env.methods : RestrictedCall(d, m)
    \/ \E d \in env.domains : getPermissionsMiddleware(d)
    \/ \E d \in env.domains, o \in RequestedChoices :
          \E md \in MetadataChoices(d) : requestPermissionsMiddleware(d, o, md)
    \/ \E i \in 1..env.pending, a \in ApprovedChoices : ApproverResolves(i, a)
    \/ \E i \in 1..env.pending : ApproverRejects(i)

SpecFlows == InitFlows /\ [][NextFlows]_vars

----------------------------------------------------------------------------
(* Properties *)

HoldsKey(perms, method, granter) ==
    \E i \in 1..Len(perms) : NatKey(perms[i]) = <<method, granter>>

HoldsMethod(perms, method) ==
    \E i \in 1..Len(perms) : perms[i].method = method

\* A restricted call that was dispatched: to the handler or to a static caveat.
Authorized(r) ==
    /\ ~r.hangs
    /\ r.error = NoError
    /\ r.handlerCalls = 1 \/ r.result.kind = "value"

\* C1: after an approval with a non-empty map the response lists the domain's
\* permissions, with one record of granter "user" for every approved method,
\* and a restricted call of the domain to an approved, registered method is
\* dispatched.
C1_GrantThenCall ==
    (last.op = "approval" /\ last.methods # <<>>) =>
        /\ last.error = NoError
        /\ last.result = PermsResult(getPermissionsForDomain(last.domain))
        /\ \A k \in 1..Len(last.methods) :
              Cardinality({ i \in 1..Len(last.result.perms) :
                  NatKey(last.result.perms[i]) = <<last.methods[k], "user">> }) = 1
        /\ \A k \in 1..Len(last.methods) :
              last.methods[k] \in restrictedMethods =>
                  Authorized(RestrictedOutcome(last.domain, last.methods[k]))

\* C2: when a domain holding a root permission (granter "user") for m grants
\* m to a grantee, the grantee gains the record (m, granter), the response
\* lists the new record, and the grantee's restricted call to m is dispatched.
C2_PeerDelegation ==
    (/\ last.op = "grantPermissions"
     /\ Len(last.methods) = 1
     /\ HoldsKey(getPermissionsForDomain(last.domain), last.methods[1], "user"))
    => /\ last.error = NoError
       /\ HoldsKey(getPermissionsForDomain(last.target), last.methods[1], last.domain)
       /\ last.result.kind = "permissions"
       /\ Len(last.result.perms) = 1
       /\ NatKey(last.result.perms[1]) = <<last.methods[1], last.domain>>
       /\ last.methods[1] \in restrictedMethods =>
              Authorized(RestrictedOutcome(last.target, last.methods[1]))

\* C3: when domain A revokes from another domain B the method m it delegated
\* to B, the record (m, A) is gone from B's permissions, the response lists
\* the removed record, and B, holding no other record for m, is unauthorized
\* (error code 1) on its next restricted call to m.
C3_RevocationByGranter ==
    (/\ last.op = "revokePermissions"
     /\ last.domain # last.target
     /\ Len(last.methods) = 1
     /\ HoldsKey(last.before, last.methods[1], last.domain))
    => /\ last.error = NoError
       /\ last.endCalls = 1
       /\ ~HoldsKey(getPermissionsForDomain(last.target), last.methods[1], last.domain)
       /\ last.result.kind = "permissions"
       /\ Len(last.result.perms) = 1
       /\ last.result.perms[1] \in Range(last.before)
       /\ NatKey(last.result.perms[1]) = <<last.methods[1], last.domain>>
       /\ ~HoldsMethod(getPermissionsForDomain(last.target), last.methods[1]) =>
              /\ RestrictedOutcome(last.target, last.methods[1]).error.code = 1
              /\ RestrictedOutcome(last.target, last.methods[1]).handlerCalls = 0

C3_Witness ==
    /\ last.op = "revokePermissions"
    /\ last.domain # last.target
    /\ Len(last.methods) = 1
    /\ HoldsKey(last.before, last.methods[1], last.domain)
    /\ last.error = NoError
    /\ ~HoldsMethod(getPermissionsForDomain(last.target), last.methods[1])
    /\ getPermission(last.domain, last.methods[1]).kind = "found"

\* C4: a domain holding a root permission (granter "user") for m revokes it
\* itself: the request succeeds, the record is removed, and the domain's next
\* restricted call to m ends with error code 1.
C4_SelfRevocationOfRoot ==
    (/\ last.op = "revokePermissions"
     /\ last.domain = last.target
     /\ Len(last.methods) = 1
     /\ HoldsKey(last.before, last.methods[1], "user"))
    => /\ last.error = NoError
       /\ ~HoldsKey(getPermissionsForDomain(last.domain), last.methods[1], "user")
       /\ RestrictedOutcome(last.domain, last.methods[1]).error.code = 1

\* C5: a call to a method that is neither safe nor a meta method, from a
\* domain for which getPermission returns none, sets res.error to the
\* unauthorized error, ends with it once, never reaches the handler or next,
\* and leaves the domains and the pending requests as they were.
C5_UnauthorizedWithoutPermission ==
    [][ (/\ last'.op = "call"
         /\ Route(last'.method) = "restricted"
         /\ getPermission(last'.domain, last'.method).kind = "none")
        => /\ last'.error = unauthorized
           /\ last'.error.code = 1
           /\ last'.endCalls = 1
           /\ last'.nextCalls = 0
           /\ last'.handlerCalls = 0
           /\ last'.result = NoResult
           /\ domains' = domains
           /\ permissionsRequests' = permissionsRequests ]_vars

C5_Witness ==
    /\ last.op = "call"
    /\ Route(last.method) = "restricted"
    /\ last.method \in restrictedMethods
    /\ getPermission(last.domain, last.method).kind = "none"
    /\ HoldsMethod(getPermissionsForDomain(last.domain), last.method)
    /\ last.error.code = 1

\* C6: a request whose method is a safe method, also one that bears the name
\* of a meta method, calls next once and end never, leaves res.error and
\* res.result unset and leaves the engine state unchanged.
C6_SafeMethodPassthrough ==
    [][ last'.method \in env.safeMethods
        => /\ last'.op = "call"
           /\ last'.nextCalls = 1
           /\ last'.endCalls = 0
           /\ last'.handlerCalls = 0
           /\ last'.error = NoError
           /\ last'.result = NoResult
           /\ UNCHANGED <<domains, permissionsRequests, approvals, nextId>> ]_vars

C6_Witness ==
    /\ last.op = "call"
    /\ last.method \in env.safeMethods
    /\ last.method \in internalMethods
    /\ getPermissionsForDomain(last.domain) # <<>>
    /\ last.nextCalls = 1

\* C7: a restricted call to a registered method that resolves a permission
\* with a static caveat answers with the value of the last static caveat,
\* ends once without error and does not reach the handler; without a static
\* caveat the handler is invoked.
C7_StaticCaveatShortCircuit ==
    (/\ last.op = "call"
     /\ Route(last.method) = "restricted"
     /\ last.method \in restrictedMethods
     /\ getPermission(last.domain, last.method).kind = "found")
    => LET caveats == getPermission(last.domain, last.method).perm.caveats
           idx == { i \in 1..Len(caveats) : caveats[i].type = "static" }
       IN  IF idx # {}
           THEN /\ \E i \in idx :
                      /\ \A j \in idx : j <= i
                      /\ last.result = ValueResult(caveats[i].value)
                /\ last.endCalls = 1
                /\ last.error = NoError
                /\ last.handlerCalls = 0
           ELSE /\ last.handlerCalls = 1
                /\ last.result = NoResult
                /\ last.error = NoError
                /\ last.endCalls = 0

C7_Witness ==
    /\ last.op = "call"
    /\ last.method \in restrictedMethods
    /\ getPermission(last.domain, last.method).kind = "found"
    /\ Cardinality({ i \in 1..Len(getPermission(last.domain, last.method).perm.caveats) :
          getPermission(last.domain, last.method).perm.caveats[i].type = "static" }) > 1
    /\ last.result.kind = "value"

\* C8: every domain's permissions list holds at most one record for each
\* (method, granter) pair.
C8_NaturalKeyUnique ==
    \A d \in DOMAIN domains :
        \A i, j \in 1..Len(domains[d]) :
            NatKey(domains[d][i]) = NatKey(domains[d][j]) => i = j

\* C9 as stated: addPermissionsFor(d, [P]) followed by
\* removePermissionsFor(d, [P]) restores d's permissions list.
C9_RoundTripAlways ==
    (last.op = "removePermissionsFor" /\ last.undo.applies)
    => getPermissionsForDomain(last.domain) = last.undo.before

\* C9, amended: addPermissionsFor(d, [P]) followed by
\* removePermissionsFor(d, [P]) restores d's permissions list when d held no
\* record with P's (method, granter) before the two calls.
C9_RoundTripFreshKey ==
    (/\ last.op = "removePermissionsFor"
     /\ last.undo.applies
     /\ ~HoldsKey(last.undo.before, last.perms[1].method, last.perms[1].granter))
    => /\ last.domain \in DOMAIN domains
       /\ domains[last.domain] = last.undo.before

C9_Witness ==
    /\ last.op = "removePermissionsFor"
    /\ last.undo.applies
    /\ ~HoldsKey(last.undo.before, last.perms[1].method, last.perms[1].granter)
    /\ HoldsMethod(last.undo.before, last.perms[1].method)
    /\ domains[last.domain] = last.undo.before

\* C10: a record that getPermission returns has granter "user".
C10_ResolvedRootedAtUser ==
    \A d \in env.domains, m \in env.methods :
        getPermission(d, m).kind = "found" =>
            getPermission(d, m).perm.granter = "user"

\* A request the engine has answered without running a method handler.
AnsweredByEngine(r) ==
    /\ ~r.hangs
    /\ r.handlerCalls = 0
    /\ r.op \in {"call", "getPermissions", "approval", "rejection",
                 "grantPermissions", "revokePermissions"}

\* C11: for every request the engine answers itself, exactly one of next and
\* end is invoked, exactly once, and res.result / res.error is assigned at
\* most once.
C11_ExactlyOnceCompletion ==
    AnsweredByEngine(last) =>
        /\ last.nextCalls + last.endCalls = 1
        /\ last.resWrites <= 1

\* C12: a ticket is in permissionsRequests exactly while the approver has not
\* decided on it: every ticket in the list belongs to a request that still
\* waits for the approver, and every waiting request has its ticket in the list.
C12_PendingRequestLifecycle ==
    /\ \A i \in 1..Len(permissionsRequests) :
          \E j \in 1..Len(approvals) : approvals[j] = permissionsRequests[i]
    /\ \A j \in 1..Len(approvals) :
          \E i \in 1..Len(permissionsRequests) : permissionsRequests[i] = approvals[j]

\* C13: when the approver resolves with an empty map, res.error is
\* USER_REJECTED_ERROR (code 5), end is called once with it, res.result is
\* not set, and no domain's permissions change.
C13_UserRejection ==
    [][ (last'.op = "approval" /\ last'.methods = <<>>) =>
            /\ last'.error = USER_REJECTED_ERROR
            /\ last'.error.code = 5
            /\ last'.endCalls = 1
            /\ last'.nextCalls = 0
            /\ last'.result = NoResult
            /\ domains' = domains ]_vars

C13_Witness ==
    /\ last.op = "approval"
    /\ last.methods = <<>>
    /\ last.error.code = 5
    /\ \E d \in DOMAIN domains : domains[d] # <<>>

\* C14: a request whose calling domain is "user" is rejected, and the domain
\* "user" never holds a permission, never grants or revokes one and never has
\* a restricted call authorized.
C14_ReservedSentinel ==
    /\ getPermissionsForDomain("user") = <<>>
    /\ (last.domain = "user" /\ last.op # "init") =>
          /\ last.error # NoError
          /\ last.result = NoResult
          /\ last.nextCalls = 0
          /\ last.handlerCalls = 0

\* C15: in every state reached from the empty store by approvals,
\* grantPermissions and revokePermissions, the granter walk of
\* getPermission(d, m) ends for every domain d and method m: it never comes
\* back to a domain it has passed through.
C15_ResolverTermination ==
    \A d \in env.domains, m \in env.methods :
        getPermission(d, m).kind # "loops"

\* The caller may revoke the target's record for the method: the target
\* holds a record for it that the caller granted, or the caller is the target
\* and holds a record for it without a granter.
Revocable(caller, holder, method) ==
    \E i \in 1..Len(getPermissionsForDomain(holder)) :
        LET p == getPermissionsForDomain(holder)[i]
        IN  /\ p.method = method
            /\ \/ p.granter = caller
               \/ (caller = holder /\ p.granter = NoGranter)

\* C16: a grantPermissions request whose caller resolves no permission for at
\* least one requested method, and a revokePermissions request with at least
\* one element the caller may not revoke, change no domain's permissions, end
\* with the unauthorized error and leave res.result unset, whatever the other
\* elements of the list resolve to.
C16_MetaFailureAllOrNothing ==
    [][ (\/ /\ last'.op = "grantPermissions"
            /\ ~last'.hangs
            /\ \E k \in 1..Len(last'.methods) :
                  getPermission(last'.domain, last'.methods[k]).kind = "none"
         \/ /\ last'.op = "revokePermissions"
            /\ \E k \in 1..Len(last'.methods) :
                  ~Revocable(last'.domain, last'.target, last'.methods[k]))
        => /\ domains' = domains
           /\ last'.result = NoResult
           /\ last'.error = unauthorized ]_vars

C16_Witness ==
    /\ last.op = "grantPermissions"
    /\ Len(last.methods) = 2
    /\ getPermission(last.domain, last.methods[1]).kind = "found"
    /\ getPermission(last.domain, last.methods[2]).kind = "none"
    /\ last.error = unauthorized
    /\ last.result = NoResult
    /\ getPermissionsForDomain(last.target) = last.before

\* The permissions list of domain d in the store doms.
PermsOf(doms, d) == IF d \in DOMAIN doms THEN doms[d] ELSE <<>>

\* The records of the list that the granter did not grant, in order.
NotGrantedBy(perms, granter) ==
    SelectSeqBy(perms, { p \in Range(perms) : p.granter # granter })

\* C17: a revokePermissions request leaves the permissions of every domain
\* other than assignedDomain as they were, and when the caller is not
\* assignedDomain every record it removes has the caller as granter: the
\* records assignedDomain received from "user" or from other granters stay,
\* in their order.
C17_RevocationAuthority ==
    [][ last'.op = "revokePermissions" =>
          LET caller == last'.domain
              holder == last'.target
              before == PermsOf(domains, holder)
              after == PermsOf(domains', holder)
          IN  /\ \A d \in env.domains \ {holder} :
                    PermsOf(domains', d) = PermsOf(domains, d)
              /\ caller # holder =>
                    /\ \A p \in Range(before) \ Range(after) : p.granter = caller
                    /\ Range(after) \subseteq Range(before)
                    /\ NotGrantedBy(after, caller) = NotGrantedBy(before, caller) ]_vars

C17_Witness ==
    /\ last.op = "revokePermissions"
    /\ last.domain # last.target
    /\ last.error = NoError
    /\ Len(last.perms) = 1
    /\ last.perms[1].granter = last.domain
    /\ Len(last.before) = 2
    /\ Len(getPermissionsForDomain(last.target)) = 1
    /\ getPermissionsForDomain(last.target)[1].granter = "user"
    /\ getPermissionsForDomain(last.domain) # <<>>

\* The first record for the method in the domain's list is one that the
\* granter granted.
FirstGrantedBy(domain, method, granter) ==
    LET permissions == methodFilter(getPermissionsForDomain(domain), method)
    IN  permissions # <<>> /\ Head(permissions).granter = granter

\* C18 as stated: right after a domain A has revoked the record it had granted
\* to B, every domain C that holds a record (m, granter B) has its restricted
\* calls to m ended with error code 1, B holding no record for m.
C18_NoCascadeLazyInvalidation ==
    \A b \in env.domains, c \in env.domains, m \in env.methods :
        (/\ last.op = "revokePermissions"
         /\ last.error = NoError
         /\ last.target = b
         /\ last.domain # b
         /\ HoldsKey(getPermissionsForDomain(last.domain), m, NoGranter)
         /\ m \in Range(last.methods)
         /\ c \notin {b, last.domain}
         /\ HoldsKey(getPermissionsForDomain(c), m, b)
         /\ ~HoldsMethod(getPermissionsForDomain(b), m))
        => RestrictedOutcome(c, m).error.code = 1

\* C18, amended: in every state, a restricted call to m from a domain C whose
\* first record for m has granter B ends with error code 1, and no handler
\* runs, for as long as B holds no record for m; C's record is still in the
\* store.
C18_LazyInvalidationOfFirstRecord ==
    \A b \in env.domains, c \in env.domains, m \in env.methods :
        (FirstGrantedBy(c, m, b) /\ ~HoldsMethod(getPermissionsForDomain(b), m))
        => RestrictedOutcome(c, m) = EndWithError(Request("call", c, m), unauthorized)

C18_Witness ==
    /\ last.op = "revokePermissions"
    /\ last.error = NoError
    /\ last.domain # last.target
    /\ last.perms # <<>>
    /\ \E c \in env.domains \ {last.domain, last.target} :
          /\ FirstGrantedBy(c, last.perms[1].method, last.target)
          /\ ~HoldsMethod(getPermissionsForDomain(last.target), last.perms[1].method)
          /\ RestrictedOutcome(c, last.perms[1].method).error.code = 1

\* Where the chain of first records for the method ends, starting at the
\* domain: at a domain that holds no record for it ("none"), at a record
\* without a granter ("root"), or not within the given number of hops.
RECURSIVE FirstRecordChain(_, _, _)
FirstRecordChain(domain, method, hops) ==
    LET permissions == methodFilter(getPermissionsForDomain(domain), method)
    IN  IF permissions = <<>> THEN "none"
        ELSE IF Head(permissions).granter = NoGranter THEN "root"
        ELSE IF hops = 0 THEN "unended"
        ELSE FirstRecordChain(Head(permissions).granter, method, hops - 1)

\* More hops than there are holders in the store.
ChainHops == Cardinality(env.domains) + 1

\* C19: when the chain of first records for m that starts at d ends at a
\* domain holding no record for m, getPermission(d, m) is none, whatever the
\* later records of the lists on the way lead to.
C19_FirstMatchResolution ==
    \A d \in env.domains, m \in env.methods :
        FirstRecordChain(d, m, ChainHops) = "none" =>
            getPermission(d, m) = WalkNone

C19_Witness ==
    \E d \in env.domains, m \in env.methods :
        LET permissions == methodFilter(getPermissionsForDomain(d), m)
        IN  /\ FirstRecordChain(d, m, ChainHops) = "none"
            /\ getPermission(d, m) = WalkNone
            /\ \E k \in 2..Len(permissions) :
                  /\ permissions[k].granter # NoGranter
                  /\ FirstRecordChain(permissions[k].granter, m, ChainHops) = "root"

\* The tickets of the list that carry another metadata id, in order.
OtherTickets(requests, requestId) ==
    SelectSeqBy(requests, { t \in Range(requests) : t.metadata.id # requestId })

\* The records of a list without their ids, which uuid() draws afresh.
WithoutIds(perms) ==
    [ k \in 1..Len(perms) |->
        [method |-> perms[k].method, granter |-> perms[k].granter,
         caveats |-> perms[k].caveats] ]

\* C20: the approver's decision on one requestPermissions flow leaves the
\* tickets with other metadata ids and the permissions of the other domains
\* as they were, and its outcome is a function of that decision and of the
\* requesting domain's own permissions alone: an approval removes the flow's
\* ticket and answers with the domain's list, which is the old list without
\* the approved keys followed by the new records; an empty approval or a
\* rejection answers with the error and changes nothing. Two flows of
\* distinct domains with distinct ids therefore end the same way in either
\* order.
C20_IndependentApprovalFlows ==
    [][ last'.op \in {"approval", "rejection"} =>
          LET d == last'.domain
              own == PermsOf(domains, d)
              created == last'.perms
          IN  /\ OtherTickets(permissionsRequests', last'.target)
                   = OtherTickets(permissionsRequests, last'.target)
              /\ \A e \in env.domains \ {d} :
                    PermsOf(domains', e) = PermsOf(domains, e)
              /\ IF last'.op = "approval" /\ last'.methods # <<>>
                 THEN /\ OtherTickets(permissionsRequests', last'.target)
                           = permissionsRequests'
                      /\ [k \in 1..Len(created) |-> created[k].method] = last'.methods
                      /\ \A k \in 1..Len(created) : created[k].granter = "user"
                      /\ WithoutIds(PermsOf(domains', d))
                           = WithoutIds(SelectSeqBy(own,
                                 { p \in Range(own) : ~isReplaced(p, created) }))
                             \o WithoutIds(created)
                      /\ last'.result = PermsResult(PermsOf(domains', d))
                      /\ last'.error = NoError
                 ELSE /\ permissionsRequests' = permissionsRequests
                      /\ PermsOf(domains', d) = own
                      /\ last'.result = NoResult
                      /\ last'.error = IF last'.op = "approval"
                                       THEN USER_REJECTED_ERROR ELSE ApproverReason
              /\ last'.endCalls = 1 ]_vars

C20_Witness ==
    /\ last.op = "approval"
    /\ last.result.perms # <<>>
    /\ \E j \in 1..Len(approvals) :
          /\ approvals[j].origin # last.domain
          /\ approvals[j].metadata.id # last.target
          /\ approvals[j] \in Range(permissionsRequests)
          /\ getPermissionsForDomain(approvals[j].origin) # <<>>

\* C21: no two entries of permissionsRequests have the same metadata.id.
C21_UniquePendingIds ==
    \A i, j \in 1..Len(permissionsRequests) :
        permissionsRequests[i].metadata.id = permissionsRequests[j].metadata.id
            => i = j

\* The last request was a grantPermissions by which granter gave grantee a
\* record for the method that grantee did not hold from it just before, the
\* granter holding a record for the method without a granter.
DelegatedAfresh(granter, grantee, method) ==
    /\ last.op = "grantPermissions"
    /\ last.error = NoError
    /\ ~last.hangs
    /\ last.domain = granter
    /\ last.target = grantee
    /\ granter # grantee
    /\ method \in Range(last.methods)
    /\ ~HoldsKey(last.before, method, granter)
    /\ HoldsKey(getPermissionsForDomain(granter), method, NoGranter)

====
